---- MODULE Spec2Model ----
(***************************************************************************)
(* A model of yaml-peg's byte cursor (src/parser/base/mod.rs) and of the   *)
(* document model's node wrapper (src/node.rs).                            *)
(*                                                                         *)
(* Specifications: Spec (the cursor under every sequence of its            *)
(* operations), MatchSpec (one matcher call from every cursor state),      *)
(* IndexSpec (chains of index operations on a node), SetSpec (nodes        *)
(* inserted into a hash set), AccessSpec (one accessor call on a node) and  *)
(* SerSpec (the calls of SerializeMap on a MapSerializer,                  *)
(* src/serialize/ser.rs).                                                  *)
(*                                                                         *)
(* The cursor is the struct Parser: doc, indent, consumed,                 *)
(* version_checked, tag, pos, eaten.  Every method of the cursor is a pure *)
(* operator on a record of these fields, written after its source; the     *)
(* actions apply the operators to the variables.  A closure handed to      *)
(* context / count runs between the entry and the exit of that call; the   *)
(* variable frames is the call stack of the open calls, each frame holding *)
(* the local the method saved on entry.                                    *)
(***************************************************************************)
EXTENDS Integers, Sequences, FiniteSets, TLC

VARIABLES
    doc,              \* Parser.doc: the input bytes
    pos,              \* Parser.pos: current position
    eaten,            \* Parser.eaten: read position (last commit point)
    consumed,         \* Parser.consumed
    indent,           \* Parser.indent: the indent stack
    version_checked,  \* Parser.version_checked
    tag,              \* Parser.tag: handle -> prefix
    frames,           \* open context / count calls, innermost first
    op,               \* the call made last
    ret,              \* what that call returned
    root,             \* the node an index chain n[k1][k2]... starts from
    path,             \* the keys and indices applied so far
    cur,              \* the node the chain has reached
    set,              \* a HashSet<Node>
    ins,              \* the last insert into it, and what it returned
    call,             \* the accessor called on root, with its arguments
    out,              \* what that accessor returned
    ser_map,          \* MapSerializer.0: the entries inserted so far
    ser_key,          \* MapSerializer.1: the pending key
    ser_op,           \* the SerializeMap call made last, with its arguments
    ser_ret           \* what that call returned

cursor == <<doc, pos, eaten, consumed, indent, version_checked, tag>>
parser == <<doc, pos, eaten, consumed, indent, version_checked, tag, frames, op, ret>>
nodes == <<root, path, cur, set, ins, call, out>>
serializer == <<ser_map, ser_key, ser_op, ser_ret>>
vars == <<doc, pos, eaten, consumed, indent, version_checked, tag, frames, op, ret,
          root, path, cur, set, ins, call, out, ser_map, ser_key, ser_op, ser_ret>>

---------------------------------------------------------------------------
(* Bounds of the model.                                                    *)

MaxDocLen == 2        \* longest input
MaxRepeat == 2        \* largest lo / hi of a TakeOpt
MaxSeqLen == 2        \* longest argument of sym_seq
MaxLevel == 1         \* deepest level given to ind
MaxDepth == 1         \* deepest nesting of context / count closures
MaxConsumed == 1      \* consume is not called once consumed would pass this

SPACE == 32           \* b' ', the byte ind matches
Alphabet == {SPACE, 97}   \* the bytes of the inputs: b' ' and b'a'
LETTER == CHOOSE b \in Alphabet : b # SPACE

RECURSIVE SeqsUpTo(_, _)
SeqsUpTo(S, n) ==
    IF n = 0 THEN {<<>>}
    ELSE LET shorter == SeqsUpTo(S, n - 1)
         IN  shorter \cup {Append(s, x) : s \in {t \in shorter : Len(t) = n - 1}, x \in S}

Docs == SeqsUpTo(Alphabet, MaxDocLen)

\* One byte slice for every predicate over the alphabet (the predicate is_in(s)).
Slices == {<<>>, <<SPACE>>, <<LETTER>>, <<SPACE, LETTER>>}

---------------------------------------------------------------------------
(* enum TakeOpt.                                                           *)

One == [k |-> "One", lo |-> 0, hi |-> 0]
Range(a, b) == [k |-> "Range", lo |-> a, hi |-> b]
More(a) == [k |-> "More", lo |-> a, hi |-> 0]

TakeOpts ==
    {One} \cup {Range(a, b) : a \in 0..MaxRepeat, b \in 0..MaxRepeat}
          \cup {More(a) : a \in 0..MaxRepeat}

---------------------------------------------------------------------------
(* The struct and its methods, as operators on the record of its fields.   *)

Self ==
    [doc |-> doc, pos |-> pos, eaten |-> eaten, consumed |-> consumed,
     indent |-> indent, version_checked |-> version_checked, tag |-> tag]

\* Result<(), PError> together with the parser the call leaves behind.
Ok(p) == [p |-> p, r |-> "Ok"]
Mismatch(p) == [p |-> p, r |-> "Mismatch"]

DefaultTag == [h \in {"!", "!!"} |-> IF h = "!" THEN "" ELSE "tag:yaml.org,2002:"]

\* Parser::new(doc).pos(start)
NewParser(d, start) ==
    [doc |-> d, pos |-> start, eaten |-> start, consumed |-> 0,
     indent |-> <<0>>, version_checked |-> FALSE, tag |-> DefaultTag]

\* food that forgets to start at pos.
food_whole(p) == p.doc

food(p) == SubSeq(p.doc, p.pos + 1, Len(p.doc))

indicator(p) == p.consumed + p.pos

\* text(): the bytes from eaten to pos, nothing when eaten is not below pos.
text(p) == IF p.eaten < p.pos THEN SubSeq(p.doc, p.eaten + 1, p.pos) ELSE <<>>

\* An err that reports the position in the current buffer.
err_relative(p, msg) == [r |-> "Terminate", n |-> p.pos, msg |-> msg]

\* err(msg): Err(PError::Terminate(msg, self.indicator()))
err(p, msg) == [r |-> "Terminate", n |-> indicator(p), msg |-> msg]

forward(p) == [p EXCEPT !.eaten = p.pos]

backward(p) == [p EXCEPT !.pos = p.eaten]

\* consume that adds the old commit point: the call of forward is missing.
consume_unforwarded(p) ==
    LET p2 == [p EXCEPT !.consumed = p.consumed + p.eaten]
        p3 == [p2 EXCEPT !.eaten = 0]
    IN  backward(p3)

\* consume that resets the window and forgets to add it to consumed.
consume_dropped(p) == [p EXCEPT !.pos = 0, !.eaten = 0]

consume(p) ==
    LET p1 == forward(p)
        p2 == [p1 EXCEPT !.consumed = p1.consumed + p1.eaten]
        p3 == [p2 EXCEPT !.eaten = 0]
    IN  backward(p3)

\* not_in(s)(c): the loop returns false at the first byte of s equal to c.
not_in(s, c) == ~ \E i \in 1..Len(s) : s[i] = c

is_in(s, c) == ~ not_in(s, c)

\* The for loop of take_while over food, entered at its i-th byte with
\* `counter` bytes taken; the value is the counter when the loop ends.
RECURSIVE take_loop(_, _, _, _, _)
take_loop(fd, i, s, opt, counter) ==
    IF i > Len(fd) THEN counter
    ELSE IF ~ is_in(s, fd[i]) THEN counter
    ELSE LET c == counter + 1
         IN  IF opt.k = "One" THEN c
             ELSE IF opt.k = "Range" /\ c = opt.hi THEN c
             ELSE take_loop(fd, i + 1, s, opt, c)

\* take_while whose under-match returns Mismatch without calling backward.
take_while_unrewound(p, s, opt) ==
    LET counter == take_loop(food(p), 1, s, opt, 0)
        q == [p EXCEPT !.pos = p.pos + counter]
    IN  IF p.pos = q.pos
        THEN IF opt.k \in {"More", "Range"} /\ opt.lo = 0
             THEN Ok(q)
             ELSE Mismatch(backward(q))
        ELSE IF opt.k \in {"More", "Range"} /\ counter < opt.lo
             THEN Mismatch(q)
             ELSE Ok(q)

\* take_while(is_in(s), opt)
take_while(p, s, opt) ==
    LET counter == take_loop(food(p), 1, s, opt, 0)
        q == [p EXCEPT !.pos = p.pos + counter]
    IN  IF p.pos = q.pos
        THEN IF opt.k \in {"More", "Range"} /\ opt.lo = 0
             THEN Ok(q)
             ELSE Mismatch(backward(q))
        ELSE IF opt.k \in {"More", "Range"} /\ counter < opt.lo
             THEN Mismatch(backward(q))
             ELSE Ok(q)

sym_set(p, s) == take_while(p, s, One)

sym(p, b) == sym_set(p, <<b>>)

\* sym_seq: `self.sym(*s)?` for the bytes of s from the i-th on.
RECURSIVE seq_from(_, _, _)

RECURSIVE seq_from_partial(_, _, _)
\* A sequence match that stays where the byte that differs is.
seq_from_partial(p, s, i) ==
    IF i > Len(s) THEN Ok(p)
    ELSE LET r == sym(p, s[i])
         IN  IF r.r = "Ok" THEN seq_from_partial(r.p, s, i + 1) ELSE Mismatch(p)

seq_from(p, s, i) ==
    IF i > Len(s) THEN Ok(p)
    ELSE LET r == sym(p, s[i])
         IN  IF r.r = "Ok" THEN seq_from(r.p, s, i + 1) ELSE r

sym_seq(p, s) == seq_from(p, s, 1)

RECURSIVE Sum(_)
Sum(s) == IF s = <<>> THEN 0 ELSE Head(s) + Sum(Tail(s))

\* The indent stack after the first statement of ind.
ind_stack(st, level) ==
    IF level >= Len(st)
    THEN st \o [i \in 1..(level - Len(st) + 1) |-> 2]
    ELSE SubSeq(st, 1, level + 1)

\* `self.sym(b' ')?` n times.
RECURSIVE spaces(_, _)
spaces(p, n) ==
    IF n = 0 THEN Ok(p)
    ELSE LET r == sym(p, SPACE)
         IN  IF r.r = "Ok" THEN spaces(r.p, n - 1) ELSE r

\* An ind that takes one space for each level.
ind_space_per_level(p, level) ==
    LET q == [p EXCEPT !.indent = ind_stack(p.indent, level)]
    IN  spaces(q, level)

ind(p, level) ==
    LET q == [p EXCEPT !.indent = ind_stack(p.indent, level)]
    IN  spaces(q, Sum(SubSeq(q.indent, 1, level + 1)))

---------------------------------------------------------------------------
(* context and count: what the method does before and after the closure.   *)

\* context, up to the call of f: `let eaten = self.eaten; self.forward();`
context_enter(p) == [p |-> forward(p), saved |-> p.eaten]

\* context that returns r without restoring eaten.
context_exit_unrestored(p, saved) == p

\* context, after f returned r: `self.eaten = eaten; r`
context_exit(p, saved) == [p EXCEPT !.eaten = saved]

\* count, up to the call of f: `let pos = self.pos;`
count_enter(p) == [p |-> p, saved |-> p.pos]

\* count, after f returned Ok: `Ok(self.pos - pos)`.  usize subtraction: below
\* zero it panics where overflow is checked and wraps where it is not; both
\* outcomes are the result "Overflow".
count_exit(p, saved) ==
    IF p.pos >= saved THEN [r |-> "Ok", n |-> p.pos - saved, msg |-> ""]
    ELSE [r |-> "Overflow", n |-> 0, msg |-> ""]

---------------------------------------------------------------------------------------------------------------------------------------------------------------------------------------------------------------------------------------------------------------------------------------------
(* The document model: YamlBase and NodeBase.                              *)

MaxItems == 2         \* most items of an Array / entries of a Map
MaxNest == 2          \* deepest nesting of containers in a node
MaxIndex == 1         \* largest usize index
MaxPath == 3          \* longest chain of index operations
MaxSet == 2           \* inserts are made into a set of fewer elements

\* A YamlBase value: the variant and its payload (b: Bool, s: the string of
\* Int / Float / Str / Anchor, items: Array, entries: Map, in insertion order).
Yaml(t, b, s, items, entries) ==
    [tag |-> t, b |-> b, s |-> s, items |-> items, entries |-> entries]

Null == Yaml("Null", FALSE, "", <<>>, <<>>)
Bool(b) == Yaml("Bool", b, "", <<>>, <<>>)
YamlInt(s) == Yaml("Int", FALSE, s, <<>>, <<>>)
Float(s) == Yaml("Float", FALSE, s, <<>>, <<>>)
Str(s) == Yaml("Str", FALSE, s, <<>>, <<>>)
Array(items) == Yaml("Array", FALSE, "", items, <<>>)
Map(entries) == Yaml("Map", FALSE, "", <<>>, entries)
Anchor(s) == Yaml("Anchor", FALSE, s, <<>>, <<>>)

Entry(k, v) == [k |-> k, v |-> v]

\* NodeBase::new(yaml, pos, ty, anchor)
Node(y, p, ty, an) == [yaml |-> y, pos |-> p, ty |-> ty, anchor |-> an]

\* From<YamlBase> for NodeBase
FromYaml(y) == Node(y, 0, "", "")

is_null(n) == n.yaml = Null

\* Equality of the Repr a node wraps, and of YamlBase: the payloads are
\* compared variant by variant, the nodes inside an Array or a Map by this
\* same equality; pos, ty and anchor take no part.
RECURSIVE ReprEq(_, _)
ReprEq(a, b) ==
    LET x == a.yaml
        y == b.yaml
    IN  /\ x.tag = y.tag
        /\ x.b = y.b
        /\ x.s = y.s
        /\ Len(x.items) = Len(y.items)
        /\ \A i \in 1..Len(x.items) : ReprEq(x.items[i], y.items[i])
        /\ Len(x.entries) = Len(y.entries)
        /\ \A i \in 1..Len(x.entries) :
              /\ ReprEq(x.entries[i].k, y.entries[i].k)
              /\ ReprEq(x.entries[i].v, y.entries[i].v)

\* What the Repr a node wraps feeds to a hasher: its payload, the nodes
\* inside it by this same feed.
RECURSIVE ReprHash(_)
ReprHash(a) ==
    LET x == a.yaml
    IN  [tag |-> x.tag, b |-> x.b, s |-> x.s,
         items |-> [i \in 1..Len(x.items) |-> ReprHash(x.items[i])],
         entries |-> [i \in 1..Len(x.entries) |->
                         <<ReprHash(x.entries[i].k), ReprHash(x.entries[i].v)>>]]

\* A PartialEq that compares every field of the node.
NodeEq_every_field(a, b) == a = b

\* #[derive(PartialEq, Eq)] on NodeBase<R>(R): the equality of R.
NodeEq(a, b) == ReprEq(a, b)

\* #[derive(Hash)] on NodeBase<R>(R): the hash of R.
NodeHash(a) == ReprHash(a)

\* HashSet::insert(n): true, and n stored, unless an equal node is stored.
hashset_insert(s, n) ==
    IF \E e \in s : NodeHash(e) = NodeHash(n) /\ NodeEq(e, n)
    THEN [set |-> s, added |-> FALSE]
    ELSE [set |-> s \cup {n}, added |-> TRUE]

\* usize::to_string: the decimal digits of i.
Digit(d) ==
    CASE d = 0 -> "0" [] d = 1 -> "1" [] d = 2 -> "2" [] d = 3 -> "3" [] d = 4 -> "4"
      [] d = 5 -> "5" [] d = 6 -> "6" [] d = 7 -> "7" [] d = 8 -> "8" [] d = 9 -> "9"

RECURSIVE to_string(_)
to_string(i) == IF i < 10 THEN Digit(i) ELSE to_string(i \div 10) \o Digit(i % 10)

\* Map::get(&key): the value of the entry whose key equals key.
map_get(entries, key) ==
    LET hits == {i \in 1..Len(entries) :
                    NodeHash(entries[i].k) = NodeHash(key) /\ NodeEq(entries[i].k, key)}
    IN  IF hits = {} THEN [some |-> FALSE, v |-> key]
        ELSE [some |-> TRUE, v |-> entries[CHOOSE i \in hits : TRUE].v]

\* From<&str> for YamlBase: the string as a Str.
yaml_from(index) == Str(index)

\* Index<usize> whose Map arm looks the index up as a string key.
index_usize_str_key(n, index) ==
    CASE n.yaml.tag = "Array" ->
            IF index < Len(n.yaml.items) THEN n.yaml.items[index + 1] ELSE n
      [] n.yaml.tag = "Map" ->
            LET got == map_get(n.yaml.entries, FromYaml(Str(to_string(index))))
            IN  IF got.some THEN got.v ELSE n
      [] OTHER -> n

\* Index<usize> for NodeBase
index_usize(n, index) ==
    CASE n.yaml.tag = "Array" ->
            IF index < Len(n.yaml.items) THEN n.yaml.items[index + 1] ELSE n
      [] n.yaml.tag = "Map" ->
            LET got == map_get(n.yaml.entries, FromYaml(YamlInt(to_string(index))))
            IN  IF got.some THEN got.v ELSE n
      [] OTHER -> n

\* Index<&str> that answers a miss with a null node of its own.
index_str_null(n, index) ==
    IF n.yaml.tag = "Map"
    THEN LET got == map_get(n.yaml.entries, FromYaml(yaml_from(index)))
         IN  IF got.some THEN got.v ELSE FromYaml(Null)
    ELSE FromYaml(Null)

\* Index<&str> for NodeBase
index_str(n, index) ==
    IF n.yaml.tag = "Map"
    THEN LET got == map_get(n.yaml.entries, FromYaml(yaml_from(index)))
         IN  IF got.some THEN got.v ELSE n
    ELSE n

\* What an accessor hands back in Ok: a bool, a string, a parsed number
\* (mantissa and decimal exponent), or the items / entries of a container.
Val(kind, b, s, num, seq) == [kind |-> kind, b |-> b, s |-> s, num |-> num, seq |-> seq]

NoVal == Val("none", FALSE, "", <<0, 0>>, <<>>)

\* Result<NodeBase, u64> and Result<Ret, u64>; a panic of the call.
NodeOk(n) == [r |-> "Ok", n |-> n, v |-> NoVal, pos |-> 0]
ValOk(v) == [r |-> "Ok", n |-> FromYaml(Null), v |-> v, pos |-> 0]
PosErr(p) == [r |-> "Err", n |-> FromYaml(Null), v |-> NoVal, pos |-> p]
Panicked == [r |-> "Panic", n |-> FromYaml(Null), v |-> NoVal, pos |-> 0]
NoOut == [r |-> "None", n |-> FromYaml(Null), v |-> NoVal, pos |-> 0]

BoolVal(b) == Val("bool", b, "", <<0, 0>>, <<>>)
StrVal(s) == Val("str", FALSE, s, <<0, 0>>, <<>>)
NumVal(num) == Val("num", FALSE, "", num, <<>>)
ArrayVal(items) == Val("array", FALSE, "", <<0, 0>>, items)
MapVal(entries) == Val("map", FALSE, "", <<0, 0>>, entries)

\* str::parse::<N>() for N = u64, i64, f64, on lexemes of one digit, signed
\* or not, with or without one decimal: the number as mantissa and decimal
\* exponent, or a failure.
parse(ty, s) ==
    LET nat == {i \in 0..9 : to_string(i) = s}
        neg == {i \in 0..9 : "-" \o to_string(i) = s}
        frac == {d \in (0..9) \X (0..9) : to_string(d[1]) \o "." \o to_string(d[2]) = s}
        nfrac == {d \in (0..9) \X (0..9) :
                     "-" \o to_string(d[1]) \o "." \o to_string(d[2]) = s}
        one(S) == CHOOSE x \in S : TRUE
    IN  IF nat # {} THEN [ok |-> TRUE, num |-> <<one(nat), 0>>]
        ELSE IF neg # {} /\ ty \in {"i64", "f64"}
        THEN [ok |-> TRUE, num |-> <<0 - one(neg), 0>>]
        ELSE IF frac # {} /\ ty = "f64"
        THEN [ok |-> TRUE, num |-> <<10 * one(frac)[1] + one(frac)[2], 0 - 1>>]
        ELSE IF nfrac # {} /\ ty = "f64"
        THEN [ok |-> TRUE, num |-> <<0 - (10 * one(nfrac)[1] + one(nfrac)[2]), 0 - 1>>]
        ELSE [ok |-> FALSE, num |-> <<0, 0>>]

\* as_num_method!: the lexeme of one of the variants tys, parsed to N.
as_num_method(n, tys, ty) ==
    IF n.yaml.tag \in tys
    THEN LET v == parse(ty, n.yaml.s)
         IN  IF v.ok THEN ValOk(NumVal(v.num)) ELSE PosErr(n.pos)
    ELSE PosErr(n.pos)

\* NodeBase::as_bool
as_bool(n) == IF n.yaml.tag = "Bool" THEN ValOk(BoolVal(n.yaml.b)) ELSE PosErr(n.pos)

\* NodeBase::as_int, as_float, as_number
as_int(n, ty) == as_num_method(n, {"Int"}, ty)
as_float(n, ty) == as_num_method(n, {"Float"}, ty)
as_number(n, ty) == as_num_method(n, {"Int", "Float"}, ty)

\* An as_str that does not take Null for the empty string.
as_str_strict(n) ==
    IF n.yaml.tag = "Str" THEN ValOk(StrVal(n.yaml.s)) ELSE PosErr(n.pos)

\* NodeBase::as_str
as_str(n) ==
    CASE n.yaml.tag = "Str" -> ValOk(StrVal(n.yaml.s))
      [] n.yaml.tag = "Null" -> ValOk(StrVal(""))
      [] OTHER -> PosErr(n.pos)

\* NodeBase::as_value
as_value(n) ==
    CASE n.yaml.tag \in {"Str", "Int", "Float"} -> ValOk(StrVal(n.yaml.s))
      [] n.yaml.tag = "Bool" /\ n.yaml.b -> ValOk(StrVal("true"))
      [] n.yaml.tag = "Bool" /\ ~ n.yaml.b -> ValOk(StrVal("false"))
      [] n.yaml.tag = "Null" -> ValOk(StrVal(""))
      [] OTHER -> PosErr(n.pos)

\* NodeBase::as_array, as_map
as_array(n) ==
    IF n.yaml.tag = "Array" THEN ValOk(ArrayVal(n.yaml.items)) ELSE PosErr(n.pos)
as_map(n) ==
    IF n.yaml.tag = "Map" THEN ValOk(MapVal(n.yaml.entries)) ELSE PosErr(n.pos)

\* The accessor named f, parsing to ty if it is a number accessor.
Apply(f, ty, n) ==
    CASE f = "as_bool" -> as_bool(n)
      [] f = "as_int" -> as_int(n, ty)
      [] f = "as_float" -> as_float(n, ty)
      [] f = "as_number" -> as_number(n, ty)
      [] f = "as_str" -> as_str(n)
      [] f = "as_value" -> as_value(n)
      [] f = "as_array" -> as_array(n)
      [] f = "as_map" -> as_map(n)

\* AnchorBase: the anchor table, name -> node, as a list of bindings.
Binding(name, n) == [k |-> name, v |-> n]

contains_key(anchors, s) == \E i \in 1..Len(anchors) : anchors[i].k = s

anchors_get(anchors, s) == anchors[CHOOSE i \in 1..Len(anchors) : anchors[i].k = s].v

\* An as_anchor that puts the bound payload under the receiver's pos, ty
\* and anchor.
as_anchor_in_place(n, anchors) ==
    IF n.yaml.tag = "Anchor" /\ contains_key(anchors, n.yaml.s)
    THEN Node(anchors_get(anchors, n.yaml.s).yaml, n.pos, n.ty, n.anchor)
    ELSE n

\* An as_anchor that looks the result of the first lookup up once more.
as_anchor_twice(n, anchors) ==
    LET lookup(x) == IF x.yaml.tag = "Anchor" /\ contains_key(anchors, x.yaml.s)
                     THEN anchors_get(anchors, x.yaml.s)
                     ELSE x
    IN  lookup(lookup(n))

\* NodeBase::as_anchor(anchors)
as_anchor(n, anchors) ==
    IF n.yaml.tag = "Anchor" /\ contains_key(anchors, n.yaml.s)
    THEN anchors_get(anchors, n.yaml.s)
    ELSE n

RECURSIVE get(_, _)

\* A get that stops at the first key.
get_first_key_only(n, keys) ==
    IF keys = <<>> THEN Panicked
    ELSE IF n.yaml.tag = "Map"
         THEN LET got == map_get(n.yaml.entries, FromYaml(yaml_from(keys[1])))
              IN  IF got.some THEN NodeOk(got.v) ELSE PosErr(n.pos)
         ELSE PosErr(n.pos)

RECURSIVE get_lenient(_, _)
\* A get that hands back a node that is not a Map when keys remain.
get_lenient(n, keys) ==
    IF keys = <<>> THEN Panicked
    ELSE IF n.yaml.tag = "Map"
         THEN LET got == map_get(n.yaml.entries, FromYaml(yaml_from(keys[1])))
              IN  IF got.some
                  THEN IF Tail(keys) = <<>> THEN NodeOk(got.v)
                       ELSE get_lenient(got.v, Tail(keys))
                  ELSE PosErr(n.pos)
         ELSE NodeOk(n)

RECURSIVE get_node_first(_, _)
\* A get that looks at the node before it looks at the keys.
get_node_first(n, keys) ==
    IF n.yaml.tag = "Map"
    THEN IF keys = <<>> THEN Panicked
         ELSE LET got == map_get(n.yaml.entries, FromYaml(yaml_from(keys[1])))
              IN  IF got.some
                  THEN IF Tail(keys) = <<>> THEN NodeOk(got.v)
                       ELSE get_node_first(got.v, Tail(keys))
                  ELSE PosErr(n.pos)
    ELSE PosErr(n.pos)

\* NodeBase::get(keys)
get(n, keys) ==
    IF keys = <<>> THEN Panicked
    ELSE IF n.yaml.tag = "Map"
         THEN LET got == map_get(n.yaml.entries, FromYaml(yaml_from(keys[1])))
              IN  IF got.some
                  THEN IF Tail(keys) = <<>> THEN NodeOk(got.v)
                       ELSE get(got.v, Tail(keys))
                  ELSE PosErr(n.pos)
         ELSE PosErr(n.pos)

RECURSIVE get_default(_, _, _, _, _)

RECURSIVE get_default_forgiving(_, _, _, _, _)
\* A get_default that gives the default for a node the factory refuses.
get_default_forgiving(n, keys, default, factory, ty) ==
    IF keys = <<>> THEN Panicked
    ELSE IF n.yaml.tag = "Map"
         THEN LET got == map_get(n.yaml.entries, FromYaml(yaml_from(keys[1])))
              IN  IF got.some
                  THEN IF Tail(keys) = <<>>
                       THEN IF Apply(factory, ty, got.v).r = "Ok"
                            THEN Apply(factory, ty, got.v) ELSE ValOk(default)
                       ELSE get_default_forgiving(got.v, Tail(keys), default, factory, ty)
                  ELSE ValOk(default)
         ELSE PosErr(n.pos)

RECURSIVE get_default_last_key(_, _, _, _, _)
\* A get_default that gives the default only when the last key is missing.
get_default_last_key(n, keys, default, factory, ty) ==
    IF keys = <<>> THEN Panicked
    ELSE IF n.yaml.tag = "Map"
         THEN LET got == map_get(n.yaml.entries, FromYaml(yaml_from(keys[1])))
              IN  IF got.some
                  THEN IF Tail(keys) = <<>> THEN Apply(factory, ty, got.v)
                       ELSE get_default_last_key(got.v, Tail(keys), default, factory, ty)
                  ELSE IF Tail(keys) = <<>> THEN ValOk(default) ELSE PosErr(n.pos)
         ELSE PosErr(n.pos)

\* NodeBase::get_default(keys, default, factory)
get_default(n, keys, default, factory, ty) ==
    IF keys = <<>> THEN Panicked
    ELSE IF n.yaml.tag = "Map"
         THEN LET got == map_get(n.yaml.entries, FromYaml(yaml_from(keys[1])))
              IN  IF got.some
                  THEN IF Tail(keys) = <<>> THEN Apply(factory, ty, got.v)
                       ELSE get_default(got.v, Tail(keys), default, factory, ty)
                  ELSE ValOk(default)
         ELSE PosErr(n.pos)

\* The nodes a chain starts from.  A leaf located at p; the string leaf
\* carries a type assertion and an anchor.
Leaf(p) == Node(Str("a"), p, "my-type", "my-anchor")

Leaves(p) == {Node(Null, p, "", ""), Leaf(p)}

Keys == <<FromYaml(Str("a")), FromYaml(YamlInt("0")), FromYaml(Str("0"))>>

\* The item lists of a container: the first item any node of C, the items
\* after it nodes of L.
RECURSIVE ItemLists(_, _, _)
ItemLists(C, L, n) ==
    IF n = 0 THEN {<<>>}
    ELSE IF n = 1 THEN {<<>>} \cup {<<c>> : c \in C}
    ELSE LET shorter == ItemLists(C, L, n - 1)
         IN  shorter \cup {Append(s, l) : s \in shorter \ {<<>>}, l \in L}

EntriesOf(items) == [i \in 1..Len(items) |-> Entry(Keys[i], items[i])]

Min(a, b) == IF a < b THEN a ELSE b

\* The nodes located at p that nest containers at most d deep.
RECURSIVE NodesAt(_, _)
NodesAt(d, p) ==
    IF d = 0 THEN Leaves(p)
    ELSE LET C == NodesAt(d - 1, p + 1)
             L == {Leaf(p + 1)}
         IN  Leaves(p)
             \cup {Node(Array(s), p, "", "") : s \in ItemLists(C, L, MaxItems)}
             \cup {Node(Map(EntriesOf(s)), p, "", "") :
                      s \in ItemLists(C, L, Min(MaxItems, Len(Keys)))}
             \cup {Node(Map(<<Entry(Keys[i], c)>>), p, "", "") :
                      i \in 1..Len(Keys), c \in C}

Roots == NodesAt(MaxNest, 0)

StrKeys == {"a", "b"}

UsizeStep(i) == [by |-> "usize", i |-> i, k |-> ""]
StrStep(k) == [by |-> "str", i |-> 0, k |-> k]

\* The nodes inserted into a set: a few payloads, each under several
\* decorations, the nodes inside an Array or a Map decorated too.
Decorations == {Node(Null, p, ty, an) :
                   p \in 0..1, ty \in {"", "my-type"}, an \in {"", "my-anchor"}}

Decorate(y, d) == Node(y, d.pos, d.ty, d.anchor)

Inner == {Node(Str("a"), 0, "", ""), Node(Str("a"), 1, "my-type", "my-anchor")}

Payloads ==
    {Null, Str(""), Str("a")}
        \cup {Array(<<c>>) : c \in Inner}
        \cup {Map(<<Entry(k, FromYaml(Null))>>) : k \in Inner}

SetNodes == {Decorate(y, d) : y \in Payloads, d \in Decorations}

NoInsert == [n |-> FromYaml(Null), r |-> "None"]

\* The keys given to get and get_default, and the lists of them.
GetKeys == StrKeys \cup {"0"}

KeyLists == SeqsUpTo(GetKeys, MaxPath)

\* The nodes an accessor is called on: the nodes of Roots, and a scalar of
\* every variant, located away from 0.
Scalars ==
    {Null, Bool(TRUE), Bool(FALSE), YamlInt("1"), YamlInt("-1"), YamlInt("1.5"),
     Float("1.5"), Float("1"), Float("a"), Str(""), Str("a"), Str("1"), Anchor("a")}

AccessRoots == Roots \cup {Node(y, 1, "", "") : y \in Scalars}

PlainAccessors == {"as_bool", "as_str", "as_value", "as_array", "as_map"}
NumAccessors == {"as_int", "as_float", "as_number"}
NumTypes == {"u64", "i64", "f64"}

\* The anchor tables given to as_anchor.
Bound == {Node(Float("1.5"), 2, "my-type", "my-anchor"), Node(Anchor("a"), 2, "", "")}

\* Tables of two bindings: "a" is an alias of "b", and "b" is bound to a
\* value (a chain) or to an alias of "a" (a cycle).
Aliases ==
    {<<Binding("a", Node(Anchor("b"), 2, "", "")), Binding("b", n)>> : n \in Bound}

Tables ==
    {<<>>} \cup {<<Binding(name, n)>> : name \in StrKeys, n \in Bound} \cup Aliases

\* The accessors given to get_default as factory, and the default given
\* with each.
Factories == {"as_str", "as_map"}

Default(f) == IF f = "as_str" THEN StrVal("d") ELSE MapVal(<<>>)

\* An accessor call: the method, and for get_default the accessor given as
\* factory and the default, for a number accessor the type N it parses to,
\* for as_anchor the anchor table.
Access(f, factory, ty, default, table) ==
    [f |-> f, factory |-> factory, ty |-> ty, default |-> default, table |-> table]

NoCall == Access("none", "", "", NoVal, <<>>)

---------------------------------------------------------------------------
(* The map serializer: struct MapSerializer(Map, Option<Node>) and its     *)
(* impl of SerializeMap, as operators on the record of its two fields.     *)

\* Option<NodeBase>
None == [some |-> FALSE, v |-> FromYaml(Null)]
Some(n) == [some |-> TRUE, v |-> n]

\* What is handed to the serializer as a key or a value (T: Serialize): a
\* &str, or a value whose Serialize impl returns an error.
Value(s) == [fails |-> FALSE, s |-> s]
Unserializable == [fails |-> TRUE, s |-> ""]
Serializables == {Value(s) : s \in StrKeys} \cup {Unserializable}

\* x.serialize(NodeSerializer(PhantomData)): serialize_str is Ok(v.into()),
\* a node of pos 0 without type assertion and anchor; the error of a
\* Serialize impl is handed on.
serialize(x) ==
    IF x.fails THEN [r |-> "Err", n |-> FromYaml(Null)]
    ELSE [r |-> "Ok", n |-> FromYaml(yaml_from(x.s))]

\* Map::insert(k, v): the value of an equal key is replaced, the entry
\* put at the back.
map_insert(entries, k, v) ==
    LET others == {i \in 1..Len(entries) :
                      ~ (NodeHash(entries[i].k) = NodeHash(k) /\ NodeEq(entries[i].k, k))}
        kept == [i \in 1..Len(entries) |-> Cardinality({j \in others : j <= i})]
        rest == [n \in 1..Cardinality(others) |->
                    entries[CHOOSE i \in others : kept[i] = n]]
    IN  Append(rest, Entry(k, v))

MapSerializer(m, k) == [map |-> m, key |-> k]

\* NodeSerializer::serialize_map: an empty map, no pending key.
serialize_map == MapSerializer(<<>>, None)

serialize_key(s, key) ==
    LET k == serialize(key)
    IN  IF k.r = "Err" THEN [s |-> s, r |-> "Err"]
        ELSE [s |-> [s EXCEPT !.key = Some(k.n)], r |-> "Ok"]

\* A serialize_value that reads the pending key and leaves it pending.
serialize_value_keeps_key(s, value) ==
    IF ~ s.key.some THEN [s |-> s, r |-> "Panic"]
    ELSE LET v == serialize(value)
         IN  IF v.r = "Err" THEN [s |-> s, r |-> "Err"]
             ELSE [s |-> [s EXCEPT !.map = map_insert(s.map, s.key.v, v.n)], r |-> "Ok"]

\* `match self.1.take()`: the key is taken before the value is serialized.
serialize_value(s, value) ==
    LET taken == [s EXCEPT !.key = None]
    IN  IF ~ s.key.some THEN [s |-> taken, r |-> "Panic"]
        ELSE LET v == serialize(value)
             IN  IF v.r = "Err" THEN [s |-> taken, r |-> "Err"]
                 ELSE [s |-> [taken EXCEPT !.map = map_insert(s.map, s.key.v, v.n)],
                       r |-> "Ok"]

serialize_entry(s, key, value) ==
    LET k == serialize(key)
        v == serialize(value)
    IN  IF k.r = "Err" \/ v.r = "Err" THEN [s |-> s, r |-> "Err"]
        ELSE [s |-> [s EXCEPT !.map = map_insert(s.map, k.n, v.n)], r |-> "Ok"]

\* end(): `Ok(self.0.into())`
end(s) == FromYaml(Map(s.map))

\* A call of SerializeMap with its arguments, and its result.
Absent == Value("")
SerCall(f, key, value) == [f |-> f, key |-> key, value |-> value]
SerRet(r, n) == [r |-> r, n |-> n]

\* The serializer variables of a run that builds no serializer.
NoSerializer ==
    /\ ser_map = <<>>
    /\ ser_key = None
    /\ ser_op = SerCall("none", Absent, Absent)
    /\ ser_ret = SerRet("None", FromYaml(Null))

\* The node variables of a run that builds no node.
NoNodes ==
    /\ root = FromYaml(Null)
    /\ path = <<>>
    /\ cur = FromYaml(Null)
    /\ set = {}
    /\ ins = NoInsert
    /\ call = NoCall
    /\ out = NoOut

-----
(* The calls and their results.                                            *)

\* A call: the method and its arguments (s: the byte slice, opt: the TakeOpt,
\* level: the indent level).
Call(f, s, opt, level) == [f |-> f, s |-> s, opt |-> opt, level |-> level]
Plain(f) == Call(f, <<>>, One, 0)

Ret(r) == [r |-> r, n |-> 0, msg |-> ""]

\* The messages given to err.
Msgs == {"invalid anchor", "document splitter error"}


Matchers == {"sym", "sym_set", "sym_seq", "take_while", "ind"}

InClosure == frames # <<>>

\* A closure is a chain of calls each followed by `?`: once a call in it has
\* returned Mismatch the closure makes no further call and returns Mismatch.
CanCall == ~ InClosure \/ ret.r # "Mismatch"

\* The matcher calls the closures are built from.
ClosureCalls ==
    {Call("sym", <<b>>, One, 0) : b \in Alphabet}
        \cup {Call("sym_seq", <<LETTER, LETTER>>, One, 0),
              Call("take_while", <<LETTER>>, More(0), 0)}

CanMatch(c) == ~ InClosure \/ (ret.r # "Mismatch" /\ c \in ClosureCalls)

SetParser(p) ==
    /\ doc' = p.doc
    /\ pos' = p.pos
    /\ eaten' = p.eaten
    /\ consumed' = p.consumed
    /\ indent' = p.indent
    /\ version_checked' = p.version_checked
    /\ tag' = p.tag

Return(c, res) ==
    /\ SetParser(res.p)
    /\ op' = c
    /\ ret' = Ret(res.r)
    /\ UNCHANGED frames
    /\ UNCHANGED nodes
    /\ UNCHANGED serializer

Init ==
    /\ \E d \in Docs : \E start \in 0..Len(d) :
          LET p == NewParser(d, start)
          IN  /\ doc = p.doc
              /\ pos = p.pos
              /\ eaten = p.eaten
              /\ consumed = p.consumed
              /\ indent = p.indent
              /\ version_checked = p.version_checked
              /\ tag = p.tag
    /\ frames = <<>>
    /\ op = Plain("new")
    /\ ret = Ret("None")
    /\ NoNodes
    /\ NoSerializer

Sym(b) ==
    /\ CanMatch(Call("sym", <<b>>, One, 0))
    /\ Return(Plain("sym"), sym(Self, b))

SymSet(s) ==
    /\ CanMatch(Call("sym_set", s, One, 0))
    /\ Return(Plain("sym_set"), sym_set(Self, s))

SymSeq(s) ==
    /\ CanMatch(Call("sym_seq", s, One, 0))
    /\ Return(Plain("sym_seq"), sym_seq(Self, s))

TakeWhile(s, opt) ==
    /\ CanMatch(Call("take_while", s, opt, 0))
    /\ Return(Plain("take_while"), take_while(Self, s, opt))

Ind(level) ==
    /\ CanMatch(Call("ind", <<>>, One, level))
    /\ Return(Plain("ind"), ind(Self, level))

Forward ==
    /\ CanCall
    /\ Return(Plain("forward"), [p |-> forward(Self), r |-> "None"])

Backward ==
    /\ CanCall
    /\ Return(Plain("backward"), [p |-> backward(Self), r |-> "None"])

Consume ==
    /\ CanCall
    /\ consumed + pos <= MaxConsumed
    /\ Return(Plain("consume"), [p |-> consume(Self), r |-> "None"])

\* A frame: the method that is open, the local it saved (context: `eaten`,
\* count: `pos`), and the position the parser had when the method was called.
Frame(kind, saved) == [kind |-> kind, saved |-> saved, pos0 |-> pos]

ContextEnter ==
    /\ UNCHANGED nodes
    /\ UNCHANGED serializer
    /\ CanCall
    /\ Len(frames) < MaxDepth
    /\ LET e == context_enter(Self)
       IN  /\ SetParser(e.p)
           /\ frames' = <<Frame("context", e.saved)>> \o frames
    /\ op' = Plain("context")
    /\ ret' = Ret("None")

\* The closure returns: Mismatch when its last call did, otherwise Ok.
ContextExit ==
    /\ UNCHANGED nodes
    /\ UNCHANGED serializer
    /\ InClosure
    /\ Head(frames).kind = "context"
    /\ SetParser(context_exit(Self, Head(frames).saved))
    /\ frames' = Tail(frames)
    /\ op' = Plain("context")
    /\ ret' = Ret(IF ret.r = "Mismatch" THEN "Mismatch" ELSE "Ok")

CountEnter ==
    /\ UNCHANGED nodes
    /\ UNCHANGED serializer
    /\ CanCall
    /\ Len(frames) < MaxDepth
    /\ LET e == count_enter(Self)
       IN  /\ SetParser(e.p)
           /\ frames' = <<Frame("count", e.saved)>> \o frames
    /\ op' = Plain("count")
    /\ ret' = Ret("None")

\* `let _ = f(self)?;` hands the closure's Mismatch on.
CountExit ==
    /\ UNCHANGED nodes
    /\ UNCHANGED serializer
    /\ InClosure
    /\ Head(frames).kind = "count"
    /\ UNCHANGED cursor
    /\ frames' = Tail(frames)
    /\ op' = Plain("count")
    /\ ret' = IF ret.r = "Mismatch" THEN Ret("Mismatch")
              ELSE count_exit(Self, Head(frames).saved)

Next ==
    \/ \E b \in Alphabet : Sym(b)
    \/ \E s \in Slices : SymSet(s)
    \/ \E s \in SeqsUpTo(Alphabet, MaxSeqLen) : SymSeq(s)
    \/ \E s \in Slices : \E opt \in TakeOpts : TakeWhile(s, opt)
    \/ \E level \in 0..MaxLevel : Ind(level)
    \/ Forward
    \/ Backward
    \/ Consume
    \/ ContextEnter
    \/ ContextExit
    \/ CountEnter
    \/ CountExit

\* The cursor under every sequence of its operations.
Spec == Init /\ [][Next]_vars

---------------------------------------------------------------------------
(* One call of a matcher from every state with eaten <= pos <= len, the    *)
(* call recorded with its arguments.                                       *)

IndentStacks == {[i \in 1..n |-> IF i = 1 THEN 0 ELSE 2] : n \in 1..(MaxLevel + 1)}

MatchInit ==
    /\ doc \in Docs
    /\ pos \in 0..Len(doc)
    /\ eaten \in 0..pos
    /\ consumed \in 0..MaxConsumed
    /\ indent \in IndentStacks
    /\ version_checked = FALSE
    /\ tag = DefaultTag
    /\ frames = <<>>
    /\ op = Plain("new")
    /\ ret = Ret("None")
    /\ NoNodes
    /\ NoSerializer

Fresh == op.f = "new"

MatchSym(b) ==
    Fresh /\ Return(Call("sym", <<b>>, One, 0), sym(Self, b))

MatchSymSet(s) ==
    Fresh /\ Return(Call("sym_set", s, One, 0), sym_set(Self, s))

MatchSymSeq(s) ==
    Fresh /\ Return(Call("sym_seq", s, One, 0), sym_seq(Self, s))

MatchTakeWhile(s, opt) ==
    Fresh /\ Return(Call("take_while", s, opt, 0), take_while(Self, s, opt))

MatchInd(level) ==
    Fresh /\ Return(Call("ind", <<>>, One, level), ind(Self, level))

MatchErr(msg) ==
    /\ Fresh
    /\ UNCHANGED cursor
    /\ UNCHANGED frames
    /\ UNCHANGED nodes
    /\ UNCHANGED serializer
    /\ op' = Plain("err")
    /\ ret' = err(Self, msg)

MatchNext ==
    \/ \E msg \in Msgs : MatchErr(msg)
    \/ \E b \in Alphabet : MatchSym(b)
    \/ \E s \in Slices : MatchSymSet(s)
    \/ \E s \in SeqsUpTo(Alphabet, MaxSeqLen) : MatchSymSeq(s)
    \/ \E s \in Slices : \E opt \in TakeOpts : MatchTakeWhile(s, opt)
    \/ \E level \in 0..MaxLevel : MatchInd(level)

MatchSpec == MatchInit /\ [][MatchNext]_vars

---------------------------------------------------------------------------
(* Chains of index operations n[k1][k2]... from every node of Roots.       *)

\* The cursor variables of a run that parses nothing.
NoParser ==
    /\ doc = <<>>
    /\ pos = 0
    /\ eaten = 0
    /\ consumed = 0
    /\ indent = <<0>>
    /\ version_checked = FALSE
    /\ tag = DefaultTag
    /\ frames = <<>>
    /\ op = Plain("new")
    /\ ret = Ret("None")

IndexInit ==
    /\ root \in Roots
    /\ path = <<>>
    /\ cur = root
    /\ set = {}
    /\ ins = NoInsert
    /\ call = NoCall
    /\ out = NoOut
    /\ NoParser
    /\ NoSerializer

IndexUsize(i) ==
    /\ Len(path) < MaxPath
    /\ cur' = index_usize(cur, i)
    /\ path' = Append(path, UsizeStep(i))
    /\ UNCHANGED <<root, set, ins, call, out>>
    /\ UNCHANGED parser
    /\ UNCHANGED serializer

IndexStr(k) ==
    /\ Len(path) < MaxPath
    /\ cur' = index_str(cur, k)
    /\ path' = Append(path, StrStep(k))
    /\ UNCHANGED <<root, set, ins, call, out>>
    /\ UNCHANGED parser
    /\ UNCHANGED serializer

IndexNext ==
    \/ \E i \in 0..MaxIndex : IndexUsize(i)
    \/ \E k \in StrKeys : IndexStr(k)

IndexSpec == IndexInit /\ [][IndexNext]_vars

---------------------------------------------------------------------------
(* Nodes inserted into a HashSet<Node>.                                    *)

SetInit ==
    /\ set = {}
    /\ ins = NoInsert
    /\ call = NoCall
    /\ out = NoOut
    /\ root = FromYaml(Null)
    /\ path = <<>>
    /\ cur = FromYaml(Null)
    /\ NoParser
    /\ NoSerializer

Insert(n) ==
    /\ Cardinality(set) < MaxSet
    /\ LET res == hashset_insert(set, n)
       IN  /\ set' = res.set
           /\ ins' = [n |-> n, r |-> IF res.added THEN "true" ELSE "false"]
    /\ UNCHANGED <<root, path, cur, call, out>>
    /\ UNCHANGED parser
    /\ UNCHANGED serializer

SetNext == \E n \in SetNodes : Insert(n)

SetSpec == SetInit /\ [][SetNext]_vars

---------------------------------------------------------------------------
(* One accessor call on every node of AccessRoots.                         *)

AccessInit ==
    /\ root \in AccessRoots
    /\ path = <<>>
    /\ cur = root
    /\ set = {}
    /\ ins = NoInsert
    /\ call = NoCall
    /\ out = NoOut
    /\ NoParser
    /\ NoSerializer

Called == call.f # "none"

KeySteps(keys) == [i \in 1..Len(keys) |-> StrStep(keys[i])]

Get(keys) ==
    /\ ~ Called
    /\ call' = Access("get", "", "", NoVal, <<>>)
    /\ path' = KeySteps(keys)
    /\ out' = get(root, keys)
    /\ UNCHANGED <<root, cur, set, ins>>
    /\ UNCHANGED parser
    /\ UNCHANGED serializer

As(f, ty) ==
    /\ ~ Called
    /\ call' = Access(f, "", ty, NoVal, <<>>)
    /\ out' = Apply(f, ty, root)
    /\ UNCHANGED <<root, path, cur, set, ins>>
    /\ UNCHANGED parser
    /\ UNCHANGED serializer

GetDefault(keys, f) ==
    /\ ~ Called
    /\ call' = Access("get_default", f, "", Default(f), <<>>)
    /\ path' = KeySteps(keys)
    /\ out' = get_default(root, keys, Default(f), f, "")
    /\ UNCHANGED <<root, cur, set, ins>>
    /\ UNCHANGED parser
    /\ UNCHANGED serializer

AsAnchor(anchors) ==
    /\ ~ Called
    /\ call' = Access("as_anchor", "", "", NoVal, anchors)
    /\ out' = NodeOk(as_anchor(root, anchors))
    /\ UNCHANGED <<root, path, cur, set, ins>>
    /\ UNCHANGED parser
    /\ UNCHANGED serializer

AccessNext ==
    \/ \E keys \in KeyLists : Get(keys)
    \/ \E anchors \in Tables : AsAnchor(anchors)
    \/ \E keys \in KeyLists : \E f \in Factories : GetDefault(keys, f)
    \/ \E f \in PlainAccessors : As(f, "")
    \/ \E f \in NumAccessors : \E ty \in NumTypes : As(f, ty)

AccessSpec == AccessInit /\ [][AccessNext]_vars

---------------------------------------------------------------------------
(* Every sequence of SerializeMap calls on a fresh MapSerializer, up to    *)
(* end() or a panic.                                                       *)

SerSelf == MapSerializer(ser_map, ser_key)

SerInit ==
    /\ ser_map = serialize_map.map
    /\ ser_key = serialize_map.key
    /\ ser_op = SerCall("serialize_map", Absent, Absent)
    /\ ser_ret = SerRet("Ok", FromYaml(Null))
    /\ NoParser
    /\ NoNodes

\* The serializer is in the caller's hands: not given up to end(), no panic.
Live == ser_op.f # "end" /\ ser_ret.r # "Panic"

SerReturn(c, res) ==
    /\ ser_map' = res.s.map
    /\ ser_key' = res.s.key
    /\ ser_op' = c
    /\ ser_ret' = SerRet(res.r, FromYaml(Null))
    /\ UNCHANGED parser
    /\ UNCHANGED nodes

SerializeKey(key) ==
    Live /\ SerReturn(SerCall("serialize_key", key, Absent), serialize_key(SerSelf, key))

SerializeValue(value) ==
    Live /\ SerReturn(SerCall("serialize_value", Absent, value), serialize_value(SerSelf, value))

SerializeEntry(key, value) ==
    Live /\ SerReturn(SerCall("serialize_entry", key, value),
                      serialize_entry(SerSelf, key, value))

End ==
    /\ Live
    /\ ser_op' = SerCall("end", Absent, Absent)
    /\ ser_ret' = SerRet("Ok", end(SerSelf))
    /\ UNCHANGED <<ser_map, ser_key>>
    /\ UNCHANGED parser
    /\ UNCHANGED nodes

SerNext ==
    \/ \E key \in Serializables : SerializeKey(key)
    \/ \E value \in Serializables : SerializeValue(value)
    \/ \E key \in Serializables : \E value \in Serializables : SerializeEntry(key, value)
    \/ End

SerSpec == SerInit /\ [][SerNext]_vars

---------------------------------------------------------------------------
(* Properties of the cursor.                                               *)

Indicator == indicator(Self)

MatcherReturned(r) == op'.f \in Matchers /\ ret'.r = r

ContextCalled ==
    /\ frames' # <<>>
    /\ Head(frames').kind = "context"
    /\ Tail(frames') = frames

ContextReturns ==
    /\ InClosure
    /\ Head(frames).kind = "context"
    /\ frames' = Tail(frames)

\* C1: when a primitive matcher (sym, sym_set, sym_seq, take_while in any mode,
\* ind) returns Mismatch, pos equals eaten afterwards, and eaten and consumed
\* have the values they had before the call; from every state with
\* eaten <= pos <= len, for every input and predicate.
C1_MismatchRewinds ==
    [][MatcherReturned("Mismatch")
          => /\ pos' = eaten'
             /\ eaten' = eaten
             /\ consumed' = consumed]_vars

\* sym_seq(b"aa") on "a " read one byte, failed on the second and left the
\* cursor on the commit point.
C1_Witness ==
    /\ op = Call("sym_seq", <<LETTER, LETTER>>, One, 0)
    /\ ret.r = "Mismatch"
    /\ doc = <<LETTER, SPACE>>
    /\ pos = 0
    /\ eaten = 0

\* C2: the cursor never advances past the input length, under every sequence
\* of sym, sym_set, sym_seq, take_while, ind, forward, backward, context and
\* count (and consume), also when a matcher is called at the end of input.
C2_PosWithinDoc == pos <= Len(doc)

\* A matcher called with the cursor at the end of a non-empty input.
C2_Witness ==
    /\ op.f \in Matchers
    /\ ret.r = "Mismatch"
    /\ Len(doc) = MaxDocLen
    /\ eaten = Len(doc)
    /\ pos = Len(doc)

\* The number of leading bytes of fd that satisfy is_in(s).
RECURSIVE Leading(_, _)
Leading(fd, s) ==
    IF fd = <<>> \/ ~ is_in(s, Head(fd)) THEN 0 ELSE 1 + Leading(Tail(fd), s)

\* The lower bound of a mode (1 for One).
LowerBound(opt) == IF opt.k = "One" THEN 1 ELSE opt.lo

\* C3: take_while(pred, opt) is a greedy quantified match.  On success it has
\* consumed n bytes, n = 1 in mode One, lo <= n <= hi in mode Range(lo, hi),
\* n >= lo in mode More(lo); the n bytes satisfy pred; it stopped at the
\* mode's upper bound, at a byte failing pred or at the end of input; eaten is
\* unchanged.  It returns Mismatch exactly when fewer leading bytes satisfy
\* pred than the mode's lower bound.  For all lo, hi >= 0, hi = 0 included.
C3_TakeWhileQuantified ==
    [][op'.f = "take_while"
          => LET opt == op'.opt
                 n == pos' - pos
                 lead == Leading(food(Self), op'.s)
             IN  /\ ret'.r = "Ok"
                      => /\ opt.k = "One" => n = 1
                         /\ opt.k = "Range" => opt.lo <= n /\ n <= opt.hi
                         /\ opt.k = "More" => n >= opt.lo
                         /\ n <= lead
                         /\ \/ opt.k = "One"
                            \/ opt.k = "Range" /\ n = opt.hi
                            \/ n = lead
                         /\ eaten' = eaten
                 /\ ret'.r = "Mismatch" <=> lead < LowerBound(opt)]_vars

C5_ContextKeepsPosOnlyOnSuccess ==
    [][ContextReturns
          => /\ ret'.r = "Mismatch" => pos' = Head(frames).pos0
             /\ ret'.r = "Ok" => pos' = pos]_vars

\* C6: indicator() never decreases from one cursor operation to the next.
C6_IndicatorMonotone == [][Indicator' >= Indicator]_vars

\* C6 as amended: indicator() decreases only across backward() and across a
\* matcher that returns Mismatch, and then pos has been put back on eaten; it
\* does not decrease across forward, consume, context, count or a matcher
\* that returns success.
C6_IndicatorDropsOnlyOnRewind ==
    [][Indicator' < Indicator
          => /\ op'.f = "backward" \/ MatcherReturned("Mismatch")
             /\ pos' = eaten']_vars

\* A matcher succeeded in the window that follows a consume.
C6_Witness ==
    /\ op.f \in Matchers
    /\ ret.r = "Ok"
    /\ consumed > 0
    /\ pos > 0

\* C7: consume() folds pos into consumed and resets the window:
\* consumed' = consumed + pos, pos' = 0, eaten' = 0; indicator() is unchanged,
\* and so are doc, the indent stack, the tag table and version_checked.
C7_ConsumeFolds ==
    [][op'.f = "consume"
          => /\ consumed' = consumed + pos
             /\ pos' = 0
             /\ eaten' = 0
             /\ Indicator' = Indicator
             /\ doc' = doc
             /\ indent' = indent
             /\ tag' = tag
             /\ version_checked' = version_checked]_vars

\* consume was called with pos > 0.
C7_Witness ==
    /\ op.f = "consume"
    /\ consumed > 0
    /\ pos = 0
    /\ eaten = 0

---------------------------------------------------------------------------
(* Claims about nodes.                                                     *)

\* The payload of a node: the node with every decoration erased, those of
\* the nodes inside it too.
RECURSIVE Strip(_)
Strip(n) ==
    LET y == n.yaml
    IN  Node(Yaml(y.tag, y.b, y.s,
                  [i \in 1..Len(y.items) |-> Strip(y.items[i])],
                  [i \in 1..Len(y.entries) |->
                      Entry(Strip(y.entries[i].k), Strip(y.entries[i].v))]),
             0, "", "")

SamePayload(a, b) == Strip(a) = Strip(b)

Inserted == IF ins.r = "None" THEN {} ELSE {ins.n}

\* C8: two nodes are equal exactly when their payloads are structurally
\* equal, whatever their pos, ty and anchor; equal nodes hash alike; a Null
\* node differs from a Str("") node; and a set into which nodes of one
\* payload and different decorations are inserted holds one entry for it.
C8_EqualityIgnoresDecorations ==
    /\ \A a \in set \cup Inserted : \A b \in set \cup Inserted :
          /\ NodeEq(a, b) <=> SamePayload(a, b)
          /\ NodeEq(a, b) => NodeHash(a) = NodeHash(b)
          /\ a.yaml = Null /\ b.yaml = Str("") => ~ NodeEq(a, b)
    /\ \A a \in set : \A b \in set : SamePayload(a, b) => a = b
    /\ ins.r = "true" => ins.n \in set
    /\ ins.r = "false" => \E e \in set : SamePayload(e, ins.n)

\* An insert of a node whose payload is stored under another pos, ty and
\* anchor, the nodes inside it decorated differently too, was refused.
C8_Witness ==
    /\ ins.r = "false"
    /\ Cardinality(set) = 1
    /\ ins.n.yaml.tag = "Array"
    /\ \E e \in set :
          /\ e.pos # ins.n.pos
          /\ e.ty # ins.n.ty
          /\ e.anchor # ins.n.anchor
          /\ e.yaml # ins.n.yaml

\* Map n has an entry whose key has the payload y.
HasKey(n, y) ==
    LET key == Strip(FromYaml(y))
    IN  \E j \in 1..Len(n.yaml.entries) : Strip(n.yaml.entries[j].k) = key

\* The step misses on n, told from n's data alone.
Missing(n, step) ==
    IF step.by = "usize"
    THEN CASE n.yaml.tag = "Array" -> step.i >= Len(n.yaml.items)
           [] n.yaml.tag = "Map" -> ~ HasKey(n, YamlInt(to_string(step.i)))
           [] OTHER -> TRUE
    ELSE CASE n.yaml.tag = "Map" -> ~ HasKey(n, Str(step.k))
           [] OTHER -> TRUE

Indexed == path' # path

\* C9: an index operation that misses (usize i on an Array with
\* i >= length, on a Map without the key YamlInt(decimal string of i), or on
\* any other variant; &str k on a Map without the key Str(k), or on a
\* non-Map) returns its receiver: the same yaml, pos, ty and anchor.
C9_IndexMissReturnsReceiver ==
    [][Indexed /\ Missing(cur, path'[Len(path')]) => cur' = cur]_vars

\* A usize index missed on a Map that has entries, and a &str index missed
\* on a decorated Str node.
C9_Witness ==
    /\ Len(path) = MaxPath
    /\ root.yaml.tag = "Map"
    /\ path[1] = StrStep("a")
    /\ path[2] = UsizeStep(MaxIndex)
    /\ path[3] = StrStep("b")
    /\ ~ Missing(root, path[1])
    /\ cur = root.yaml.entries[1].v
    /\ cur.yaml.tag = "Map"
    /\ cur.yaml.entries # <<>>
    /\ Missing(cur, path[2])
    /\ Missing(cur, path[3])

\* The nodes the chain visits: the node it starts from, then the node each
\* step returns.
RECURSIVE Visited(_, _)
Visited(n, p) ==
    IF p = <<>> THEN <<n>>
    ELSE LET step == Head(p)
             m == IF step.by = "usize" THEN index_usize(n, step.i) ELSE index_str(n, step.k)
         IN  <<n>> \o Visited(m, Tail(p))

\* Which steps of the chain miss, each on the node v[k] it is applied to.
MissesOn(v) == [k \in 1..Len(path) |-> Missing(v[k], path[k])]

\* C10 as stated: in a chain where some step misses, the steps after the
\* first miss navigate to no further entry, and the result carries the pos
\* of the node where the first miss occurred.
C10_ChainCollapsesAtFirstMiss ==
    LET v == Visited(root, path)
        miss == MissesOn(v)
    IN  \A j \in 1..Len(path) :
            miss[j] /\ (\A k \in 1..(j - 1) : ~ miss[k]) =>
                /\ \A k \in j..Len(path) : v[k + 1] = v[k]
                /\ cur.pos = v[j].pos

\* C10, amended: a step that misses returns its receiver and the steps
\* after it go on navigating from that receiver; the chain ends on the
\* node where a miss occurred (same yaml, pos, ty, anchor) when every step
\* from that miss on misses, and it is null only if that node is.
C10_ChainRestsWhereAllLaterStepsMiss ==
    LET v == Visited(root, path)
        miss == MissesOn(v)
    IN  \A j \in 1..Len(path) :
            (\A k \in j..Len(path) : miss[k]) =>
                /\ cur = v[j]
                /\ is_null(cur) <=> is_null(v[j])

\* A chain whose first step hit and whose later steps all missed on a Map
\* that is not null: it rests on that Map.
C10_Witness ==
    /\ Len(path) = MaxPath
    /\ ~ MissesOn(Visited(root, path))[1]
    /\ \A k \in 2..Len(path) : MissesOn(Visited(root, path))[k]
    /\ cur = Visited(root, path)[2]
    /\ cur # root
    /\ cur.yaml.tag = "Map"
    /\ ~ is_null(cur)

---------------------------------------------------------------------------
(* Claims about get and get_default.                                       *)

KeyNames(p) == [i \in 1..Len(p) |-> p[i].k]

\* The descent along keys, told from the data: where it stops (at) and how:
\* "found" with every key matched, at being the node under the last key,
\* "missing" at a Map that lacks the next key, "not a map" at any other node.
\* left is the number of keys not yet matched.
RECURSIVE Descend(_, _)
Descend(n, keys) ==
    IF keys = <<>> THEN [how |-> "found", at |-> n, left |-> 0]
    ELSE IF n.yaml.tag # "Map" THEN [how |-> "not a map", at |-> n, left |-> Len(keys)]
    ELSE LET key == Strip(FromYaml(Str(keys[1])))
             js == {j \in 1..Len(n.yaml.entries) : Strip(n.yaml.entries[j].k) = key}
         IN  IF js = {} THEN [how |-> "missing", at |-> n, left |-> Len(keys)]
             ELSE Descend(n.yaml.entries[CHOOSE j \in js : TRUE].v, Tail(keys))

GetCalled == call.f = "get" /\ path # <<>>

\* C11: when get(path), path not empty, returns Ok(r), r is the node
\* n[k1][k2]...[km] of repeated indexing (same payload, pos, ty, anchor), and
\* every step of that chain matched a key of a Map.
C11_GetEqualsIndexing ==
    GetCalled /\ out.r = "Ok" =>
        LET v == Visited(root, path)
        IN  /\ out = NodeOk(v[Len(path) + 1])
            /\ \A k \in 1..Len(path) :
                  v[k].yaml.tag = "Map" /\ ~ Missing(v[k], path[k])

\* A get along two keys that found a decorated leaf two Maps down.
C11_Witness ==
    /\ GetCalled
    /\ Len(path) = 2
    /\ out.r = "Ok"
    /\ out.n.pos = 2
    /\ out.n.ty # ""
    /\ out.n.anchor # ""

\* C12: get(path), path not empty, returns Err exactly when the descent
\* reaches a node that is not a Map or a Map that lacks the next key, and
\* the Err carries the pos of the node where the descent stopped; otherwise
\* it returns Ok of the node stored under the last key.
C12_GetFailsWhereDescentStops ==
    GetCalled =>
        LET d == Descend(root, KeyNames(path))
        IN  /\ out.r = "Err" <=> d.how # "found"
            /\ d.how # "found" => out = PosErr(d.at.pos)
            /\ d.how = "found" => out = NodeOk(d.at)

\* A get that stopped below the root: at a leaf that is not a Map while a
\* key remained.
C12_Witness ==
    /\ GetCalled
    /\ Len(path) = MaxPath
    /\ out.r = "Err"
    /\ out.pos = 1
    /\ Descend(root, KeyNames(path)).how = "not a map"
    /\ Descend(root, KeyNames(path)).left = 2

GetDefaultCalled == call.f = "get_default" /\ path # <<>>

\* C13: when every key of the path is present in a chain of Maps,
\* get_default(path, d, p) is p(get(path)), p's Err for a node of the wrong
\* variant included; when only the last key is missing from its Map it is
\* Ok(d).
C13_GetDefaultAppliesFactory ==
    GetDefaultCalled =>
        LET d == Descend(root, KeyNames(path))
            g == get(root, KeyNames(path))
        IN  /\ d.how = "found" =>
                  /\ g = NodeOk(d.at)
                  /\ out = Apply(call.factory, call.ty, g.n)
            /\ d.how = "missing" /\ d.left = 1 => out = ValOk(call.default)

\* A get_default whose path exists and leads to a Map, which as_str
\* refuses: the Err of as_str, at that Map and not at the root.
C13_Witness ==
    /\ GetDefaultCalled
    /\ call.factory = "as_str"
    /\ Descend(root, KeyNames(path)).how = "found"
    /\ Descend(root, KeyNames(path)).at.yaml.tag = "Map"
    /\ out = PosErr(1)

\* C14: get_default(path, d, p), path not empty: when the descent reaches a
\* Map that lacks the next key, the last one or one before it, the result
\* is Ok(d); when it reaches a node that is not a Map while keys remain, the
\* root included, the result is Err(pos of that node), not the default.
C14_GetDefaultOnlyForMissingKeys ==
    GetDefaultCalled =>
        LET d == Descend(root, KeyNames(path))
        IN  /\ d.how = "missing" => out = ValOk(call.default)
            /\ d.how = "not a map" => out = PosErr(d.at.pos) /\ out # ValOk(call.default)

\* A get_default that met a missing key before the last one and gave the
\* default.
C14_Witness ==
    /\ GetDefaultCalled
    /\ Len(path) = MaxPath
    /\ Descend(root, KeyNames(path)).how = "missing"
    /\ Descend(root, KeyNames(path)).left = 2
    /\ out = ValOk(call.default)

---------------------------------------------------------------------------
(* Claims about the accessors.                                             *)

\* The nodes the table binds to the name.
BoundTo(anchors, name) == {anchors[i].v : i \in {j \in 1..Len(anchors) : anchors[j].k = name}}

\* C15: as_anchor(table) returns the node the table binds to name when the
\* receiver is Anchor(name) and name is bound: a node equal to the bound
\* one, with its pos, ty and anchor; otherwise it returns the receiver
\* itself (same payload, pos, ty, anchor).  It never fails.
C15_AsAnchorResolvesOrReturnsSelf ==
    call.f = "as_anchor" =>
        LET bound == IF root.yaml.tag = "Anchor" THEN BoundTo(call.table, root.yaml.s) ELSE {}
        IN  /\ out.r = "Ok"
            /\ bound # {} =>
                  \E m \in bound :
                      /\ NodeEq(out.n, m)
                      /\ out.n.pos = m.pos /\ out.n.ty = m.ty /\ out.n.anchor = m.anchor
            /\ bound = {} => out.n = root

\* An Anchor node resolved to the node its name is bound to, located and
\* decorated otherwise than the receiver.
C15_Witness ==
    /\ call.f = "as_anchor"
    /\ root.yaml.tag = "Anchor"
    /\ \E m \in BoundTo(call.table, root.yaml.s) :
          /\ out.n = m
          /\ m.yaml.tag = "Float"
          /\ m.pos # root.pos
          /\ m.ty # root.ty

\* The variants on which each accessor succeeds.
Accepts(f) ==
    CASE f = "as_bool" -> {"Bool"}
      [] f = "as_str" -> {"Str", "Null"}
      [] f = "as_value" -> {"Str", "Int", "Float", "Bool", "Null"}
      [] f = "as_array" -> {"Array"}
      [] f = "as_map" -> {"Map"}
      [] f = "as_int" -> {"Int"}
      [] f = "as_float" -> {"Float"}
      [] f = "as_number" -> {"Int", "Float"}

\* The string as_str and as_value give for a node of a variant they accept.
Lexeme(y) ==
    CASE y.tag = "Null" -> ""
      [] y.tag = "Bool" -> IF y.b THEN "true" ELSE "false"
      [] OTHER -> y.s

AccessorCalled == call.f \in PlainAccessors \cup NumAccessors

\* C16: a typed accessor succeeds exactly on its variants (as_bool: Bool;
\* as_str: Str, and Null as the empty string; as_value: Str, Int, Float by
\* their lexeme, Bool as "true" / "false", Null as ""; as_array: Array;
\* as_map: Map; as_int: Int, as_float: Float, as_number: Int or Float, each
\* only if the lexeme parses) and otherwise returns Err with the pos of the
\* receiver; as_str and as_value return that Err on Array, Map and Anchor.
C16_AccessorsSucceedOnTheirVariants ==
    AccessorCalled =>
        LET y == root.yaml
            accepted == y.tag \in Accepts(call.f)
            parses == call.f \in NumAccessors => parse(call.ty, y.s).ok
        IN  /\ out.r = "Ok" <=> accepted /\ parses
            /\ out.r # "Ok" => out = PosErr(root.pos)
            /\ out.r = "Ok" =>
                  CASE call.f = "as_bool" -> out.v = BoolVal(y.b)
                    [] call.f \in {"as_str", "as_value"} -> out.v = StrVal(Lexeme(y))
                    [] call.f = "as_array" -> out.v = ArrayVal(y.items)
                    [] call.f = "as_map" -> out.v = MapVal(y.entries)
                    [] OTHER -> out.v = NumVal(parse(call.ty, y.s).num)
            /\ call.f \in {"as_str", "as_value"} /\ y.tag \in {"Array", "Map", "Anchor"} =>
                  out = PosErr(root.pos)

\* as_str gave the empty string for a Null node located away from 0.
C16_Witness ==
    /\ call.f = "as_str"
    /\ root.yaml = Null
    /\ root.pos # 0
    /\ out = ValOk(StrVal(""))

---------------------------------------------------------------------------
(* Claims about the fixed matchers, ind, err and the absolute offset.      *)

\* The input at the cursor starts with s.
StartsWith(fd, s) == Len(fd) >= Len(s) /\ SubSeq(fd, 1, Len(s)) = s

\* The next byte of the input is one of s.
NextIn(fd, s) == fd # <<>> /\ \E i \in 1..Len(s) : s[i] = fd[1]

\* C17: sym_seq(s) succeeds when the input at pos starts with s, pos then
\* advancing by len(s) with eaten unchanged, and otherwise (a byte differs,
\* or the input ends first) returns Mismatch with no byte of s left
\* consumed; sym(b) and sym_set(set) take one byte when the next byte is b,
\* is in set, and return Mismatch otherwise, at the end of input too.
C17_FixedMatchersAllOrNothing ==
    [][/\ op'.f = "sym_seq" =>
             IF StartsWith(food(Self), op'.s)
             THEN ret'.r = "Ok" /\ pos' = pos + Len(op'.s) /\ eaten' = eaten
             ELSE ret'.r = "Mismatch" /\ pos' = eaten /\ pos' <= pos /\ eaten' = eaten
       /\ op'.f \in {"sym", "sym_set"} =>
             IF NextIn(food(Self), op'.s)
             THEN ret'.r = "Ok" /\ pos' = pos + 1 /\ eaten' = eaten
             ELSE ret'.r = "Mismatch" /\ pos' = eaten /\ pos' <= pos /\ eaten' = eaten]_vars

\* sym_seq(b" a") on "  " took the space, failed on the second byte and
\* left nothing consumed.
C17_Witness ==
    /\ op = Call("sym_seq", <<SPACE, LETTER>>, One, 0)
    /\ ret.r = "Mismatch"
    /\ doc = <<SPACE, SPACE>>
    /\ pos = 0
    /\ eaten = 0

\* The width of the indent of a level: the stack entries at depths
\* 0..=level, an entry not yet recorded counting 2.
RECURSIVE Width(_, _)
Width(st, level) ==
    (IF level + 1 <= Len(st) THEN st[level + 1] ELSE 2)
        + (IF level = 0 THEN 0 ELSE Width(st, level - 1))

C19_ErrCarriesIndicator ==
    [][/\ op'.f = "err" =>
             /\ ret'.r = "Terminate"
             /\ ret'.n = consumed + pos
             /\ ret'.msg \in Msgs
             /\ pos' = pos /\ eaten' = eaten /\ consumed' = consumed /\ indent' = indent
       /\ \A msg \in Msgs : MatchErr(msg) => ret'.msg = msg]_vars

\* err raised with bytes consumed and bytes read since: the offset counts
\* both.
C19_Witness ==
    /\ op.f = "err"
    /\ ret.r = "Terminate"
    /\ consumed > 0
    /\ pos > 0
    /\ ret.n = consumed + pos

\* C20: in every state reached by matchers, forward, backward, context and
\* consume, food() is the suffix of the original input that starts at the
\* offset indicator(), after a consume() with pos > 0 too.  (doc is the
\* original input: no operation of the cursor writes it.)
C20_FoodIsSuffixAtIndicator ==
    food(Self) = SubSeq(doc, Indicator + 1, Len(doc))

\* C21: the commit point never lies ahead of the cursor: eaten <= pos in
\* every state reached from a fresh parser by sym, sym_set, sym_seq,
\* take_while, ind, forward, backward, consume and context, consume inside
\* the closure of context included; so text() is always the slice
\* doc[eaten..pos], never the empty string given for eaten > pos.
C21_EatenNotAheadOfPos ==
    /\ eaten <= pos
    /\ text(Self) = SubSeq(doc, eaten + 1, pos)

\* C22: ind(level) that returns Mismatch leaves the indent stack as it was
\* before the call; ind(level) that succeeds leaves a stack of length
\* level + 1 whose entries at the depths that existed before and are <= level
\* are unchanged, the entries at greater depths being discarded.
C22_IndStackOnlyChangesOnSuccess ==
    [][op'.f = "ind" =>
          LET level == op'.level
          IN  /\ ret'.r = "Mismatch" => indent' = indent
              /\ ret'.r = "Ok" =>
                    /\ Len(indent') = level + 1
                    /\ \A i \in 1..Min(Len(indent), level + 1) :
                           indent'[i] = indent[i]]_vars

\* C23: as_anchor(table) does exactly one lookup: when the table binds the
\* name to a node whose own payload is Anchor(other), that node is returned
\* unresolved; the call returns for every table, tables that bind a name to
\* an alias of itself or whose aliases form a cycle included; and as_anchor
\* applied to a result that is not an Anchor returns that result unchanged.
C23_AsAnchorLooksUpOnce ==
    call.f = "as_anchor" =>
        LET bound == IF root.yaml.tag = "Anchor" THEN BoundTo(call.table, root.yaml.s) ELSE {}
        IN  /\ out.r = "Ok"
            /\ \A m \in bound : m.yaml.tag = "Anchor" => out.n = m
            /\ out.n.yaml.tag # "Anchor" => as_anchor(out.n, call.table) = out.n

\* as_anchor on a table whose aliases form a cycle: the receiver names an
\* alias whose own name is bound to an alias of the receiver's name, and the
\* first alias came back unresolved.
C23_Witness ==
    /\ call.f = "as_anchor"
    /\ root.yaml.tag = "Anchor"
    /\ out.r = "Ok"
    /\ out.n.yaml.tag = "Anchor"
    /\ out.n.yaml.s # root.yaml.s
    /\ \E m \in BoundTo(call.table, out.n.yaml.s) : m.yaml = Anchor(root.yaml.s)

\* C24: get and get_default with an empty path panic on every node, a node
\* that is not a Map included, before looking at the node; with a path that
\* is not empty both return Ok or Err on every node and never panic.
C24_EmptyPathPanics ==
    call.f \in {"get", "get_default"} =>
        /\ path = <<>> => out = Panicked
        /\ path # <<>> => out.r \in {"Ok", "Err"}

\* get with an empty path on a node that is not a Map panicked.
C24_Witness ==
    /\ call.f = "get"
    /\ path = <<>>
    /\ root.yaml.tag # "Map"
    /\ out = Panicked

---------------------------------------------------------------------------
(* Claims about the map serializer.                                        *)

\* The nodes of the keys and values that serialize.
Serialized == {serialize(x).n : x \in {y \in Serializables : ~ y.fails}}

\* No two entries have keys that are equal nodes.
UniqueKeys(entries) ==
    \A i, j \in 1..Len(entries) : NodeEq(entries[i].k, entries[j].k) => i = j

\* new is old with v written under k: k is bound to v, every other key
\* keeps what it was bound to, and there is one entry more exactly when k
\* was not bound.
Written(old, new, k, v) ==
    /\ map_get(new, k).some /\ map_get(new, k).v = v
    /\ \A n \in Serialized :
          ~ NodeEq(n, k) =>
              /\ map_get(new, n).some = map_get(old, n).some
              /\ map_get(old, n).some => map_get(new, n).v = map_get(old, n).v
    /\ UniqueKeys(new)
    /\ Len(new) = Len(old) + (IF map_get(old, k).some THEN 0 ELSE 1)

\* end() gave the node of the map built, its keys unique under node
\* equality.
Ended ==
    /\ ser_ret'.r = "Ok"
    /\ ser_ret'.n = FromYaml(Map(ser_map))
    /\ UniqueKeys(ser_ret'.n.yaml.entries)

\* C25: over every sequence of serialize_key, serialize_value and
\* serialize_entry calls, each serialize_value consumes the pending key and
\* inserts exactly one (key, value) entry, leaving no key pending;
\* serialize_value with no key pending panics; serialize_key while a key is
\* pending replaces it, so that the earlier key is never inserted; end()
\* yields a Map whose keys are unique under node equality, a repeated key
\* keeping the value written last.
C25_MapSerializerProtocol ==
    [][LET f == ser_op'.f
           key == serialize(ser_op'.key)
           value == serialize(ser_op'.value)
       IN  /\ f = "serialize_value" =>
                 IF ser_key.some
                 THEN /\ ser_ret'.r # "Panic"
                      /\ ~ ser_key'.some
                      /\ Written(ser_map, ser_map', ser_key.v, value.n)
                 ELSE ser_ret'.r = "Panic" /\ ser_map' = ser_map
           /\ f = "serialize_key" =>
                 /\ ser_map' = ser_map
                 /\ ser_key.some => ser_ret'.r = "Ok" /\ ser_key' = Some(key.n)
           /\ f = "serialize_entry" /\ ser_ret'.r = "Ok" =>
                 Written(ser_map, ser_map', key.n, value.n)
           /\ f = "end" => Ended]_vars

\* C25, amended: a serialize_value whose value serializes consumes the
\* pending key and inserts exactly one (key, value) entry; one whose value
\* fails to serialize returns the error, inserts nothing and has consumed
\* the pending key all the same; with no key pending it panics, whatever
\* the value.  A serialize_key whose key serializes makes it the pending
\* key in place of an earlier one; one whose key fails to serialize returns
\* the error and leaves the earlier key pending.  serialize_entry inserts
\* one entry when key and value serialize, nothing otherwise, and leaves
\* the pending key.  No call but an insert changes the map, an insert
\* binds its key to the value written last, and end() yields the Map built,
\* its keys unique under node equality.
C25_ProtocolWithFailingValues ==
    [][LET f == ser_op'.f
           key == serialize(ser_op'.key)
           value == serialize(ser_op'.value)
       IN  /\ f = "serialize_value" =>
                 /\ ~ ser_key'.some
                 /\ IF ~ ser_key.some
                    THEN ser_ret'.r = "Panic" /\ ser_map' = ser_map
                    ELSE IF value.r = "Ok"
                         THEN /\ ser_ret'.r = "Ok"
                              /\ Written(ser_map, ser_map', ser_key.v, value.n)
                         ELSE ser_ret'.r = "Err" /\ ser_map' = ser_map
           /\ f = "serialize_key" =>
                 /\ ser_map' = ser_map
                 /\ IF key.r = "Ok"
                    THEN ser_ret'.r = "Ok" /\ ser_key' = Some(key.n)
                    ELSE ser_ret'.r = "Err" /\ ser_key' = ser_key
           /\ f = "serialize_entry" =>
                 /\ ser_key' = ser_key
                 /\ IF key.r = "Ok" /\ value.r = "Ok"
                    THEN /\ ser_ret'.r = "Ok"
                         /\ Written(ser_map, ser_map', key.n, value.n)
                    ELSE ser_ret'.r = "Err" /\ ser_map' = ser_map
           /\ f = "end" => Ended]_vars

\* serialize_value of a value that fails to serialize, on a map of two
\* entries: the error came back and the key that was pending is gone.
C25_Witness ==
    /\ ser_op.f = "serialize_value"
    /\ ser_op.value.fails
    /\ ser_ret.r = "Err"
    /\ ~ ser_key.some
    /\ Len(ser_map) = 2

====
